---- MODULE Spec2Model ----
(***************************************************************************)
(* Model of discord_daily_events.py: the content chunker, the idempotency  *)
(* guard over the state file, and the webhook delivery loop with retries.  *)
(*                                                                         *)
(* Text is modelled as a sequence of one-character strings, so that        *)
(* slicing, trimming and joining are computed as the code computes them.   *)
(***************************************************************************)
EXTENDS Integers, Sequences, FiniteSets, TLC

VARIABLES
    file,      \* content of the state file (the idempotency record)
    tmp,       \* content of the sibling temporary file "<state>.tmp"
    args,      \* the parsed command line of the current run
    pc,        \* position of the current run inside main()
    units,     \* message_units of the current run
    k,         \* index (1-based) of the unit the send loop is at
    attempt,   \* loop variable of _http_post_discord for the current unit
    reqs,      \* POST requests issued by the current run, as unit indices
    accepted,  \* unit indices the endpoint accepted in the current run
    lastResp,  \* outcome of the most recent POST of the current run
    lastWait,  \* argument of the most recent time.sleep of the current run
    io,        \* per-run effect counters: GETs, state reads, state writes
    emitted,   \* what a dry run printed
    outcome,   \* how the current run ended: exit status and reason
    hist,      \* history kept across runs (for statements about later runs)
    call       \* harness for checking a pure function: input and output

vars == <<file, tmp, args, pc, units, k, attempt, reqs, accepted, lastResp,
          lastWait, io, emitted, outcome, hist, call>>

-----------------------------------------------------------------------------
(* Bounds *)

MaxTotalChars == 4
MaxLinesC == 3
MaxLenC == 3
MaxRuns == 3
MaxRetries == 1
MaxLen == 2
MaxRetriesP == 5

-----------------------------------------------------------------------------
(* Characters and text helpers *)

SP == " "
NL == "\n"
CR == "\r"
Chars == {"a", NL, CR}

\* characters str.rstrip() / str.strip() remove
IsSpace(c) == c \in {SP, NL, CR}

RECURSIVE ReplaceCRLF(_)
\* str.replace("\r\n", "\n"): left to right, non-overlapping
ReplaceCRLF(s) ==
    IF Len(s) = 0 THEN << >>
    ELSE IF Len(s) >= 2 /\ s[1] = CR /\ s[2] = NL
         THEN <<NL>> \o ReplaceCRLF(SubSeq(s, 3, Len(s)))
         ELSE <<s[1]>> \o ReplaceCRLF(Tail(s))

\* str.replace("\r", "\n")
ReplaceCR(s) == [i \in 1..Len(s) |-> IF s[i] = CR THEN NL ELSE s[i]]

RECURSIVE RStrip(_)
\* str.rstrip()
RStrip(s) ==
    IF Len(s) > 0 /\ IsSpace(s[Len(s)])
    THEN RStrip(SubSeq(s, 1, Len(s) - 1))
    ELSE s

\* ln = line.replace("\r\n", "\n").replace("\r", "\n").rstrip()
NormalizeLine(line) == RStrip(ReplaceCR(ReplaceCRLF(line)))

\* "not msg.strip()": the text has only whitespace characters (or none)
IsBlank(msg) == \A i \in 1..Len(msg) : IsSpace(msg[i])

RECURSIVE JoinLines(_)
\* "\n".join(lines)
JoinLines(ls) ==
    IF Len(ls) = 0 THEN << >>
    ELSE IF Len(ls) = 1 THEN ls[1]
    ELSE ls[1] \o <<NL>> \o JoinLines(Tail(ls))

-----------------------------------------------------------------------------
(* _split_discord_content *)

RECURSIVE HardSplitSlack(_, _, _)
\* variant: the loop stops one character early ("while len(current) > max_len + 1")
HardSplitSlack(chunks, current, max_len) ==
    IF Len(current) > max_len + 1
    THEN HardSplitSlack(Append(chunks, SubSeq(current, 1, max_len)),
                        SubSeq(current, max_len + 1, Len(current)), max_len)
    ELSE [chunks |-> chunks, current |-> current]

RECURSIVE HardSplit(_, _, _)
\* while len(current) > max_len: chunks.append(current[:max_len]); current = current[max_len:]
HardSplit(chunks, current, max_len) ==
    IF Len(current) > max_len
    THEN HardSplit(Append(chunks, SubSeq(current, 1, max_len)),
                   SubSeq(current, max_len + 1, Len(current)), max_len)
    ELSE [chunks |-> chunks, current |-> current]

\* the body of "for line in lines" for one line; st = [chunks, current]
SplitLine(st, line, max_len) ==
    LET ln == NormalizeLine(line)
        candidate == IF st.current = << >> THEN ln
                     ELSE st.current \o <<NL>> \o ln
    IN  IF ln = << >> THEN st
        ELSE IF Len(candidate) <= max_len
             THEN [st EXCEPT !.current = candidate]
        ELSE IF st.current # << >>
             THEN IF Len(ln) <= max_len
                  THEN [chunks |-> Append(st.chunks, st.current), current |-> ln]
                  ELSE HardSplit(Append(st.chunks, st.current), ln, max_len)
        ELSE HardSplit(st.chunks, st.current, max_len)

RECURSIVE SplitLoop(_, _, _)
SplitLoop(st, lines, max_len) ==
    IF Len(lines) = 0 THEN st
    ELSE SplitLoop(SplitLine(st, lines[1], max_len), Tail(lines), max_len)

split_discord_content(lines, max_len) ==
    LET st == SplitLoop([chunks |-> << >>, current |-> << >>], lines, max_len)
    IN  IF st.current # << >> THEN Append(st.chunks, st.current) ELSE st.chunks

-----------------------------------------------------------------------------
(* Dates, fingerprint, state file *)

Days == {[year |-> 2026, month |-> 7, day |-> 1], [year |-> 2026, month |-> 7, day |-> 2]}

\* date.isoformat(): the text "YYYY-MM-DD", kept as its three fields
isoformat(d) == <<"iso", d.year, d.month, d.day>>

\* _sha256_hex: a digest, taken to be collision free
sha256_hex(data) == <<"sha256", data>>

NoFile == [kind |-> "absent"]
\* text that json.loads rejects
Garbage == [kind |-> "garbage"]

\* json.dumps({"last_sent": ..., "sha256": ...}) as written by _write_state
StateJson(last_sent, sha) == [kind |-> "json", last_sent |-> last_sent, sha256 |-> sha]

None == << >>

\* the empty text: what a missing key defaults to, and what strip() leaves of blanks
Empty == << >>

\* _read_state does not return: of the exceptions of read_text only
\* FileNotFoundError and OSError are caught (lines 429-435)
ReadRaises(f) == f.kind = "undecodable"

\* _read_state: the (last_sent, sha256) pair of an object in which both are
\* non-empty, else None
read_state(f) ==
    IF f.kind = "json" /\ f.last_sent # Empty /\ f.sha256 # Empty
    THEN <<f.last_sent, f.sha256>>
    ELSE None

-----------------------------------------------------------------------------
(* main: rendered lines to message units *)

L1 == << <<"a", "a">>, <<"a">> >>
L2 == << <<"a">>, <<"a", SP, "a", SP>> >>
RunLines == {<< >>, L1, L2}

RECURSIVE SplitEach(_, _)
\* --split-messages: for ln in lines: message_units.extend(_split_discord_content([ln], max))
SplitEach(lines, max_len) ==
    IF Len(lines) = 0 THEN << >>
    ELSE split_discord_content(<<lines[1]>>, max_len) \o SplitEach(Tail(lines), max_len)

message_units(a) ==
    IF a.split_messages
    THEN SplitEach(a.lines, a.max_content_len)
    ELSE split_discord_content(a.lines, a.max_content_len)

\* variant: the fingerprint is taken over the message units
DigestOfUnits(a) == sha256_hex(JoinLines(message_units(a)))

\* digest = _sha256_hex("\n".join(lines))
digest(a) == sha256_hex(JoinLines(a.lines))

Args == [today : Days, lines : RunLines, dry_run : BOOLEAN, split_messages : BOOLEAN,
         state_file : BOOLEAN, force : BOOLEAN, verify_webhook : BOOLEAN,
         retries : 0..MaxRetries, max_content_len : 1..MaxLen]

NoArgs == [today |-> CHOOSE d \in Days : TRUE, lines |-> << >>, dry_run |-> FALSE,
           split_messages |-> FALSE, state_file |-> FALSE, force |-> FALSE,
           verify_webhook |-> FALSE, retries |-> 0, max_content_len |-> 1]

Running == [code |-> -1, why |-> "running"]
Exit(code, why) == [code |-> code, why |-> why]

NoResp == [kind |-> "none", status |-> 0, body |-> [kind |-> "absent", val |-> 0]]
NoIO == [gets |-> 0, reads |-> 0, writes |-> 0]
NoPrev == [ran |-> FALSE, key |-> << >>, guarded |-> FALSE, failedMid |-> FALSE]
NoCall == [fn |-> "none"]

\* the units main() actually posts: "if not msg.strip(): continue"
Sendable(us) == {i \in 1..Len(us) : ~IsBlank(us[i])}

\* (date, fingerprint) of a run
RunKey(a) == <<isoformat(a.today), digest(a)>>

-----------------------------------------------------------------------------
(* _http_post_discord: what the endpoint can answer, and how it is classed *)

Statuses == {200, 204, 400, 429, 500, 599, 600}

\* the JSON body of a 429: unparsable, without the key, a non-number or a number
Bodies == {[kind |-> "nojson", val |-> 0], [kind |-> "absent", val |-> 0],
           [kind |-> "str", val |-> 0]}
          \cup {[kind |-> "num", val |-> v] : v \in {-1, 0, 2}}

Responses ==
    {[kind |-> "exc", status |-> 0, body |-> [kind |-> "absent", val |-> 0]]}
    \cup {[kind |-> "resp", status |-> s, body |-> [kind |-> "absent", val |-> 0]] :
            s \in Statuses \ {429}}
    \cup {[kind |-> "resp", status |-> 429, body |-> b] : b \in Bodies}

\* r.status_code in (200, 204)
IsAccepted(status) == status \in {200, 204}

\* r.status_code == 429
IsRateLimited(status) == status = 429

\* variant: client errors are retried too ("400 <= r.status_code < 600")
IsServerErrorWide(status) == 400 <= status /\ status < 600

\* 500 <= r.status_code < 600
IsServerError(status) == 500 <= status /\ status < 600

\* variant: any number in the body is taken, positive or not
RetryAfterAnyNumber(body) == IF body.kind = "num" THEN body.val ELSE 1

\* retry_after = 1.0 unless the body carries a number > 0
RetryAfter(body) == IF body.kind = "num" /\ body.val > 0 THEN body.val ELSE 1

RECURSIVE Pow2(_)
Pow2(n) == IF n = 0 THEN 1 ELSE 2 * Pow2(n - 1)

\* backoff = min(2 ** attempt, 8)
Backoff(a) == IF Pow2(a) < 8 THEN Pow2(a) ELSE 8

\* variant: off by one ("attempt > retries")
ExhaustedLate(a, retries) == a > retries

\* "attempt >= retries": no attempt is left after this one
Exhausted(a, retries) == a >= retries

\* "for attempt in range(retries + 1)"
InRange(a, retries) == a < retries + 1

\* a network-level failure (the except branch) or a 5xx answer
IsTransient(o) == o.kind = "exc" \/ (o.kind = "resp" /\ IsServerError(o.status))

\* the delivery log, where one is kept: how many times the unit being sent has
\* failed transiently so far
PostLog == [fn |-> "post", transient |-> 0]

Logged(c, o, d) ==
    IF c.fn # "post" THEN c
    ELSE [c EXCEPT !.transient = IF d.act = "return" THEN 0
                                 ELSE IF IsTransient(o) THEN @ + 1 ELSE @]

\* what one pass of the retry loop decides for attempt a and endpoint outcome o:
\* "return" (accepted), "retry" after sleeping wait, or "die"
PostStep(o, a, retries) ==
    IF o.kind = "exc"
    THEN IF Exhausted(a, retries) THEN [act |-> "die", wait |-> 0]
         ELSE [act |-> "retry", wait |-> Backoff(a)]
    ELSE IF IsAccepted(o.status) THEN [act |-> "return", wait |-> 0]
    ELSE IF IsRateLimited(o.status)
         THEN IF Exhausted(a, retries) THEN [act |-> "die", wait |-> 0]
              ELSE [act |-> "retry", wait |-> RetryAfter(o.body)]
    ELSE IF IsServerError(o.status) /\ a < retries
         THEN [act |-> "retry", wait |-> Backoff(a)]
    ELSE [act |-> "die", wait |-> 0]

-----------------------------------------------------------------------------
(* main *)

\* variant: the force flag inverted
GuardReadsInverted(a) == a.state_file /\ a.force

\* "if state_path is not None and not args.force": the guard reads the record
GuardReads(a) == a.state_file /\ ~a.force

\* variant: the date alone decides
AlreadySentSameDay(st, a) == st # None /\ st[1] = isoformat(a.today)

\* "st is not None and last_sent_date == today.isoformat() and last_sent_sha == digest"
AlreadySent(st, a) == st # None /\ st[1] = isoformat(a.today) /\ st[2] = digest(a)

\* variant: the loop is left after the first unit
LoopDoneEarly(i, us) == i > 1

\* "for msg in message_units" has run out of units
LoopDone(i, us) == i > Len(us)

\* variant: --force overrides --dry-run
IsDryRunUnlessForced(a) == a.dry_run /\ ~a.force

\* "if args.dry_run"
IsDryRun(a) == a.dry_run

\* variant: the loop does not advance
NextUnitSame(i) == i

\* the unit the send loop turns to after unit i
NextUnit(i) == i + 1

\* the records a successful run can have left in the state file
WrittenFiles ==
    {StateJson(isoformat(d), sha256_hex(JoinLines(l))) : d \in Days, l \in RunLines \ {<< >>}}

InitBase(files) ==
    /\ file \in files
    /\ tmp = NoFile
    /\ args = NoArgs
    /\ pc = "idle"
    /\ units = << >>
    /\ k = 1
    /\ attempt = 0
    /\ reqs = << >>
    /\ accepted = {}
    /\ lastResp = NoResp
    /\ lastWait = 0
    /\ io = NoIO
    /\ emitted = << >>
    /\ outcome = Running
    /\ hist = [runs |-> 0, before |-> file, delivered |-> {}, prev |-> NoPrev]

InitWith(files) == InitBase(files) /\ call = NoCall

\* one run, every flag, over any state file an earlier run can have left
Init == InitWith({NoFile, Garbage} \cup WrittenFiles)

\* a sequence of runs from a fresh installation
InitRuns == InitWith({NoFile, Garbage})

\* what is remembered of the run that just ended when the next one starts
Summary ==
    [ran |-> TRUE, key |-> RunKey(args), guarded |-> GuardReads(args),
     failedMid |-> reqs # << >> /\ io.writes = 0 /\ outcome.code # 0]

DeliveredAll == pc = "done" /\ Sendable(units) \subseteq accepted /\ io.writes > 0

\* main() from the rendered lines to the message units: lines 588-600
BeginRun(a) ==
    /\ args' = a
    /\ hist' = [runs |-> hist.runs + 1, before |-> file,
                delivered |-> IF DeliveredAll THEN hist.delivered \cup {RunKey(args)}
                              ELSE hist.delivered,
                prev |-> IF pc = "done" THEN Summary ELSE NoPrev]
    /\ k' = 1 /\ attempt' = 0 /\ reqs' = << >> /\ accepted' = {}
    /\ lastResp' = NoResp /\ lastWait' = 0 /\ io' = NoIO /\ emitted' = << >>
    /\ IF a.lines = << >>
       THEN /\ units' = << >>
            /\ pc' = "done"
            /\ outcome' = Exit(0, "no-events")
       ELSE /\ units' = message_units(a)
            /\ pc' = "chunked"
            /\ outcome' = Running
    /\ UNCHANGED <<file, tmp>>

\* main() up to the chunking, for lines that are given
Begin(a) == BeginRun(a) /\ UNCHANGED call

\* the first invocation of the program
StartRun(a) ==
    /\ pc = "idle"
    /\ Begin(a)

\* a further invocation (the next cron tick, a retry) after the previous one ended
NextRun(a) ==
    /\ pc = "done"
    /\ hist.runs < MaxRuns
    /\ Begin(a)

\* lines 602-608: print the units and return
DryRun ==
    /\ pc = "chunked"
    /\ IsDryRun(args)
    /\ emitted' = units
    /\ pc' = "done"
    /\ outcome' = Exit(0, "dry-run")
    /\ UNCHANGED <<file, tmp, args, units, k, attempt, reqs, accepted, lastResp,
                   lastWait, io, hist, call>>

\* lines 610-621: the idempotency check
IdempotencyCheck ==
    /\ pc = "chunked"
    /\ ~IsDryRun(args)
    /\ IF GuardReads(args)
       THEN /\ io' = [io EXCEPT !.reads = @ + 1]
            /\ IF ReadRaises(file)
               THEN /\ pc' = "done"
                    /\ outcome' = Exit(1, "traceback")
               ELSE IF AlreadySent(read_state(file), args)
               THEN /\ pc' = "done"
                    /\ outcome' = Exit(0, "skip")
               ELSE /\ pc' = IF args.verify_webhook THEN "verify" ELSE "send"
                    /\ UNCHANGED outcome
       ELSE /\ pc' = IF args.verify_webhook THEN "verify" ELSE "send"
            /\ UNCHANGED <<io, outcome>>
    /\ UNCHANGED <<file, tmp, args, units, k, attempt, reqs, accepted, lastResp,
                   lastWait, emitted, hist, call>>

\* lines 623-624 and _http_get_verify: one GET, fatal unless it answers 200
VerifyWebhook ==
    /\ pc = "verify"
    /\ io' = [io EXCEPT !.gets = @ + 1]
    /\ \E ok \in BOOLEAN :
         IF ok THEN pc' = "send" /\ UNCHANGED outcome
         ELSE pc' = "done" /\ outcome' = Exit(4, "verify-failed")
    /\ UNCHANGED <<file, tmp, args, units, k, attempt, reqs, accepted, lastResp,
                   lastWait, emitted, hist, call>>

\* lines 627-628: a blank unit is passed over
SkipBlank ==
    /\ pc = "send"
    /\ ~LoopDone(k, units)
    /\ IsBlank(units[k])
    /\ k' = NextUnit(k)
    /\ UNCHANGED <<file, tmp, args, pc, units, attempt, reqs, accepted, lastResp,
                   lastWait, io, emitted, outcome, hist, call>>

\* line 629 and one pass of the loop of _http_post_discord (lines 492-535)
Post ==
    /\ pc = "send"
    /\ ~LoopDone(k, units)
    /\ ~IsBlank(units[k])
    /\ IF InRange(attempt, args.retries)
       THEN \E o \in Responses :
              LET d == PostStep(o, attempt, args.retries)
              IN  /\ reqs' = Append(reqs, k)
                  /\ lastResp' = o
                  /\ lastWait' = d.wait
                  /\ call' = Logged(call, o, d)
                  /\ CASE d.act = "return" ->
                            /\ accepted' = accepted \cup {k}
                            /\ k' = NextUnit(k)
                            /\ attempt' = 0
                            /\ UNCHANGED <<pc, outcome>>
                       [] d.act = "retry" ->
                            /\ attempt' = attempt + 1
                            /\ UNCHANGED <<pc, outcome, accepted, k>>
                       [] d.act = "die" ->
                            /\ pc' = "done"
                            /\ outcome' = Exit(4, "post-failed")
                            /\ UNCHANGED <<accepted, k, attempt>>
       ELSE \* line 535: the loop ended without returning or dying
            /\ pc' = "done"
            /\ outcome' = Exit(4, "fell-through")
            /\ UNCHANGED <<reqs, lastResp, lastWait, accepted, k, attempt, call>>
    /\ UNCHANGED <<file, tmp, args, units, io, emitted, hist>>

\* lines 631-634 once the loop is over: go on to _write_state, or return
FinishSend ==
    /\ pc = "send"
    /\ LoopDone(k, units)
    /\ IF args.state_file
       THEN pc' = "write_tmp" /\ UNCHANGED outcome
       ELSE pc' = "done" /\ outcome' = Exit(0, "sent")
    /\ UNCHANGED <<file, tmp, args, units, k, attempt, reqs, accepted, lastResp,
                   lastWait, io, emitted, hist, call>>

\* a temporary file of which only a part has been written
Partial == [kind |-> "partial"]

\* variant: the record is written in place, without a temporary file
WriteInPlace ==
    /\ pc = "write_tmp"
    /\ file # Partial
    /\ file' = Partial
    /\ UNCHANGED <<tmp, args, pc, units, k, attempt, reqs, accepted, lastResp,
                   lastWait, io, emitted, outcome, hist, call>>

\* _write_state line 459 under way: write_text has created or truncated the
\* temporary file and written a part of the text
WriteTmpPartial ==
    /\ pc = "write_tmp"
    /\ tmp # Partial
    /\ tmp' = Partial
    /\ UNCHANGED <<file, args, pc, units, k, attempt, reqs, accepted, lastResp,
                   lastWait, io, emitted, outcome, hist, call>>

\* _write_state lines 458-459: the temporary file gets the new record
WriteTmp ==
    /\ pc = "write_tmp"
    /\ tmp' = StateJson(isoformat(args.today), digest(args))
    /\ pc' = "replace"
    /\ UNCHANGED <<file, args, units, k, attempt, reqs, accepted, lastResp,
                   lastWait, io, emitted, outcome, hist, call>>

\* _write_state line 460, then return 0: os.replace(tmp_path, state_path)
Replace ==
    /\ pc = "replace"
    /\ file' = tmp
    /\ tmp' = NoFile
    /\ io' = [io EXCEPT !.writes = @ + 1]
    /\ pc' = "done"
    /\ outcome' = Exit(0, "sent")
    /\ UNCHANGED <<args, units, k, attempt, reqs, accepted, lastResp, lastWait,
                   emitted, hist, call>>

\* _write_state lines 461-468: an OSError of mkdir, write_text or os.replace is
\* fatal; the finally block has unlinked the temporary file
WriteFail ==
    /\ pc \in {"write_tmp", "replace"}
    /\ tmp' = NoFile
    /\ pc' = "done"
    /\ outcome' = Exit(4, "write-failed")
    /\ UNCHANGED <<file, args, units, k, attempt, reqs, accepted, lastResp,
                   lastWait, io, emitted, hist, call>>

\* variant: the cleanup moves a finished temporary file into place instead of unlinking it
InterruptPromoting ==
    /\ pc \in {"chunked", "verify", "send", "write_tmp", "replace"}
    /\ file' = IF pc = "replace" THEN tmp ELSE file
    /\ tmp' = IF pc \in {"write_tmp", "replace"} THEN NoFile ELSE tmp
    /\ pc' = "done"
    /\ outcome' = Exit(4, "interrupted")
    /\ UNCHANGED <<args, units, k, attempt, reqs, accepted, lastResp,
                   lastWait, io, emitted, hist, call>>

\* lines 638-641: KeyboardInterrupt anywhere in main(); a finally block still runs
Interrupt ==
    /\ pc \in {"chunked", "verify", "send", "write_tmp", "replace"}
    /\ tmp' = IF pc \in {"write_tmp", "replace"} THEN NoFile ELSE tmp
    /\ pc' = "done"
    /\ outcome' = Exit(4, "interrupted")
    /\ UNCHANGED <<file, args, units, k, attempt, reqs, accepted, lastResp,
                   lastWait, io, emitted, hist, call>>

\* _write_state lines 461-468 when the cleanup fails: the write raised OSError
\* (or was interrupted), and in the finally block exists() or unlink() raised,
\* which "except Exception: pass" swallows; the temporary file stays
WriteFailTmpLeft ==
    /\ pc \in {"write_tmp", "replace"}
    /\ tmp # NoFile
    /\ pc' = "done"
    /\ \E why \in {"write-failed", "interrupted"} : outcome' = Exit(4, why)
    /\ UNCHANGED <<file, tmp, args, units, k, attempt, reqs, accepted, lastResp,
                   lastWait, io, emitted, hist, call>>

\* the process is killed inside _write_state (SIGKILL, power loss): nothing
\* more runs, not even the finally block
Crash ==
    /\ pc \in {"write_tmp", "replace"}
    /\ pc' = "done"
    /\ outcome' = Exit(137, "killed")
    /\ UNCHANGED <<file, tmp, args, units, k, attempt, reqs, accepted, lastResp,
                   lastWait, io, emitted, hist, call>>

Run ==
    \/ DryRun
    \/ IdempotencyCheck
    \/ VerifyWebhook
    \/ SkipBlank
    \/ Post
    \/ FinishSend
    \/ WriteTmp
    \/ Replace
    \/ WriteFail
    \/ Interrupt

Next ==
    \/ \E a \in Args : StartRun(a)
    \/ Run

Spec == Init /\ [][Next]_vars

\* repeated runs: the flags that do not bear on the guard are held fixed
RunArgs == {a \in Args : /\ ~a.dry_run /\ ~a.split_messages /\ ~a.verify_webhook
                         /\ a.retries = 0
                         /\ a.max_content_len = MaxLen /\ a.lines # << >>}

NextRuns ==
    \/ \E a \in RunArgs : StartRun(a)
    \/ \E a \in RunArgs : NextRun(a)
    \/ IdempotencyCheck
    \/ Post
    \/ FinishSend
    \/ WriteTmp
    \/ Replace
    \/ WriteFail
    \/ Interrupt

SpecRuns == InitRuns /\ [][NextRuns]_vars

-----------------------------------------------------------------------------
(* The chunker on its own: every input of bounded size *)

StrOfLen(n) == [1..n -> Chars]

RECURSIVE LinesOfTotal(_, _)
\* the sequences of exactly n lines with at most t characters in all
LinesOfTotal(n, t) ==
    IF n = 0 THEN {<< >>}
    ELSE UNION {{<<l>> \o rest : l \in StrOfLen(j), rest \in LinesOfTotal(n - 1, t - j)} :
                j \in 0..t}

\* the sequences of at most n lines with at most t characters in all
ChunkInputs(n, t) == UNION {LinesOfTotal(i, t) : i \in 0..n}

InitChunk ==
    /\ InitBase({NoFile})
    /\ call \in {[fn |-> "split", lines |-> ls, max_len |-> m, done |-> FALSE, out |-> << >>] :
                   ls \in ChunkInputs(MaxLinesC, MaxTotalChars), m \in 1..MaxLenC}

CallSplit ==
    /\ call.fn = "split"
    /\ ~call.done
    /\ call' = [call EXCEPT !.done = TRUE,
                            !.out = split_discord_content(call.lines, call.max_len)]
    /\ UNCHANGED <<file, tmp, args, pc, units, k, attempt, reqs, accepted, lastResp,
                   lastWait, io, emitted, outcome, hist>>

NextChunk == CallSplit

SpecChunk == InitChunk /\ [][NextChunk]_vars

SplitDone == call.fn = "split" /\ call.done

\* the input's non-empty right-trimmed lines, in order
TrimmedLines(lines) ==
    SelectSeq([i \in 1..Len(lines) |-> NormalizeLine(lines[i])], LAMBDA ln : ln # << >>)

RECURSIVE Rejoins(_, _)
\* the texts obtained by joining the units in order, with a newline between
\* two units, or directly after a unit that is a full slice of max_len characters
Rejoins(us, max_len) ==
    IF Len(us) = 0 THEN {<< >>}
    ELSE IF Len(us) = 1 THEN {us[1]}
    ELSE {us[1] \o sep \o r :
            sep \in IF Len(us[1]) = max_len THEN {<< >>, <<NL>>} ELSE {<<NL>>},
            r \in Rejoins(Tail(us), max_len)}

\* C5: for every sequence of input lines and every maximum length >= 1,
\* every unit the chunker returns is at most the maximum length long.
ChunkWithinMax ==
    SplitDone => \A i \in 1..Len(call.out) : Len(call.out[i]) <= call.max_len

\* C5 witness: an over-long line after a short one was hard-split into full slices
ChunkWithinMaxWitness ==
    /\ SplitDone
    /\ Len(call.out) >= 3
    /\ \E i \in 1..Len(call.lines) : Len(NormalizeLine(call.lines[i])) > call.max_len
    /\ \E i \in 1..Len(call.out) : Len(call.out[i]) = call.max_len /\ call.max_len >= 2

\* C6: joining the produced units (newline between packed units, hard-split
\* slices rejoined directly) gives back the input's non-empty right-trimmed
\* lines, in order, with nothing lost, duplicated or altered.
ChunkRoundTrip ==
    SplitDone =>
        JoinLines(TrimmedLines(call.lines)) \in Rejoins(call.out, call.max_len)

-----------------------------------------------------------------------------
(* The delivery loop on its own: two units, larger retry budgets *)


PostArgs == {[NoArgs EXCEPT !.lines = L1, !.max_content_len = 2, !.retries = r,
                            !.state_file = sf] : r \in 0..MaxRetriesP, sf \in BOOLEAN}

NextPost ==
    \/ \E a \in PostArgs : StartRun(a)
    \/ IdempotencyCheck
    \/ Post
    \/ FinishSend
    \/ WriteTmp
    \/ Replace
    \/ WriteFail
    \/ Interrupt

InitPost == InitBase({NoFile}) /\ call = PostLog

SpecPost == InitPost /\ [][NextPost]_vars

-----------------------------------------------------------------------------
(* Properties *)

Done == pc = "done"
Interrupted == outcome.why = "interrupted"
PostFailed == outcome.why \in {"post-failed", "fell-through"}

\* number of requests the run issued for unit u
Requests(u) == Cardinality({i \in 1..Len(reqs) : reqs[i] = u})

\* the step is one POST request (of the run in progress)
Posted == Len(reqs') = Len(reqs) + 1

RecordWrittenOnceAfterAll ==
    /\ io.writes <= 1
    /\ io.writes = 1 => Sendable(units) \subseteq accepted
    /\ file # hist.before => io.writes = 1
    /\ PostFailed => file = hist.before /\ io.writes = 0

\* C2 witness: the record was written after several units, one of them retried
RecordWrittenOnceAfterAllWitness ==
    /\ Done /\ io.writes = 1 /\ file # hist.before
    /\ Cardinality(accepted) >= 2
    /\ Len(reqs) > Cardinality(accepted)

\* C3: units are sent in the order the chunker produced them: a request for a
\* unit is issued only when every earlier (non-blank) unit has been accepted,
\* never for an earlier unit than the previous request, and never for a unit
\* already accepted in this run.
SentInOrder ==
    [][Posted =>
         \E u \in 1..Len(units) :
            /\ reqs' = Append(reqs, u)
            /\ units' = units
            /\ u \notin accepted
            /\ \A j \in Sendable(units) : j < u => j \in accepted
            /\ reqs # << >> => reqs[Len(reqs)] <= u]_vars

\* C3 witness: the first unit was retried and accepted, then the second was requested
SentInOrderWitness ==
    /\ Len(reqs) >= 3 /\ reqs[1] = 1 /\ reqs[2] = 1 /\ reqs[3] = 2
    /\ 1 \in accepted

\* C4 as stated: a run that fails or is interrupted after sending started and
\* before the record is written leaves the record as it was, and the next run
\* with the same date and content (force off) is not skipped.
RedeliveryAfterFailure ==
    /\ (Done /\ reqs # << >> /\ outcome.code # 0) => file = hist.before
    /\ (Done /\ ~Interrupted /\ GuardReads(args) /\ hist.prev.failedMid
          /\ hist.prev.key = RunKey(args))
        => outcome.why # "skip"

\* C4 amended: the same, when the failed run itself ran with the state file
\* and the force flag off; the next run then sends again and succeeds only
\* with every unit accepted.
RedeliveryAfterGuardedFailure ==
    /\ (Done /\ reqs # << >> /\ outcome.code # 0) => file = hist.before
    /\ (Done /\ ~Interrupted /\ GuardReads(args) /\ hist.prev.failedMid
          /\ hist.prev.guarded /\ hist.prev.key = RunKey(args))
        => /\ outcome.why # "skip"
           /\ Sendable(units) # {} => reqs # << >>
           /\ outcome.code = 0 => accepted = Sendable(units)

\* C4 witness: the run after a failed one delivered the same content
RedeliveryAfterGuardedFailureWitness ==
    /\ Done /\ outcome.why = "sent" /\ GuardReads(args)
    /\ hist.prev.failedMid /\ hist.prev.guarded /\ hist.prev.key = RunKey(args)
    /\ accepted # {}

\* C7: a dry run issues no request, neither reads nor writes the record, and
\* (unless interrupted) ends in success having emitted the units.
DryRunTouchesNothing ==
    args.dry_run =>
        /\ reqs = << >> /\ io = NoIO
        /\ file = hist.before /\ tmp = NoFile
        /\ (Done /\ ~Interrupted) => outcome.code = 0 /\ emitted = units

\* C7 witness: a forced dry run with a state file that holds a record
DryRunTouchesNothingWitness ==
    /\ Done /\ args.dry_run /\ args.state_file /\ args.force /\ args.verify_webhook
    /\ file \in WrittenFiles
    /\ Len(emitted) >= 2

\* C8: a 429 with attempts remaining waits the suggested duration when it is
\* a positive number and 1 second otherwise, consumes one attempt and stays on
\* the same unit; a 429 on the last attempt (retries + 1) is fatal, and no
\* request follows a fatal outcome.
RateLimitedRetry ==
    [][/\ (Posted /\ lastResp'.kind = "resp" /\ lastResp'.status = 429) =>
            IF attempt < args.retries
            THEN /\ lastWait' = (IF lastResp'.body.kind = "num" /\ lastResp'.body.val > 0
                                 THEN lastResp'.body.val ELSE 1)
                 /\ attempt' = attempt + 1
                 /\ k' = k /\ pc' = "send" /\ accepted' = accepted
            ELSE /\ attempt = args.retries
                 /\ pc' = "done" /\ outcome' = Exit(4, "post-failed")
       /\ (PostFailed /\ hist'.runs = hist.runs) => reqs' = reqs]_vars

\* C8 witness: the unit was sent again and answered 429 with 2 seconds, which were waited
RateLimitedRetryWitness ==
    /\ reqs = <<1, 1>> /\ k = 1 /\ pc = "send"
    /\ lastResp.status = 429 /\ lastResp.body = [kind |-> "num", val |-> 2]
    /\ lastWait = 2 /\ attempt = 2

\* C9: for every retry budget r and every sequence of endpoint outcomes the
\* delivery of one unit issues at most r + 1 requests and ends accepted or
\* fatal, never both; the retry loop never falls through.
BoundedAttempts ==
    /\ outcome.why # "fell-through"
    /\ \A u \in 1..Len(units) :
         /\ Requests(u) <= args.retries + 1
         /\ Requests(u) = args.retries + 1 => (u \in accepted \/ (PostFailed /\ k = u))
         /\ ~(u \in accepted /\ PostFailed /\ k = u)
    /\ pc = "send" => attempt <= args.retries

\* C9 witness: a unit used its whole budget of several attempts
BoundedAttemptsWitness ==
    /\ args.retries >= 2
    /\ Requests(1) = args.retries + 1
    /\ PostFailed /\ k = 1

\* C10: a response that is neither accepted, nor 429, nor 5xx is fatal on that
\* attempt whatever budget remains: the run ends, no further request is issued
\* and the record is not written.
OtherRejectionFatal ==
    [][/\ (Posted /\ lastResp'.kind = "resp"
             /\ lastResp'.status \notin {200, 204, 429}
             /\ ~(500 <= lastResp'.status /\ lastResp'.status <= 599)) =>
            /\ pc' = "done" /\ outcome' = Exit(4, "post-failed")
            /\ file' = hist.before /\ io'.writes = 0
       /\ (PostFailed /\ hist'.runs = hist.runs) => reqs' = reqs /\ file' = file]_vars

\* C10 witness: a 400 on a first attempt, with budget and a later unit left
OtherRejectionFatalWitness ==
    /\ Done /\ PostFailed
    /\ lastResp.status = 400 /\ attempt = 0 /\ args.retries > 0
    /\ k < Len(units) /\ args.state_file

-----------------------------------------------------------------------------
(* _ordinal, and the decimal text of an integer *)

MaxOrd == 130

DigitChars == <<"0", "1", "2", "3", "4", "5", "6", "7", "8", "9">>

RECURSIVE str_int(_)
\* str(n) of an integer n >= 0: its decimal digits, most significant first
str_int(n) ==
    IF n < 10 THEN <<DigitChars[n + 1]>>
    ELSE str_int(n \div 10) \o <<DigitChars[(n % 10) + 1]>>

\* variant: the test on the tens is left out
OrdinalSuffixNoTeens(n) ==
    CASE n % 10 = 1 -> <<"s", "t">>
      [] n % 10 = 2 -> <<"n", "d">>
      [] n % 10 = 3 -> <<"r", "d">>
      [] OTHER -> <<"t", "h">>

\* lines 115-118: "th" for 10 <= n % 100 <= 20, else by the last digit
OrdinalSuffix(n) ==
    IF 10 <= n % 100 /\ n % 100 <= 20 THEN <<"t", "h">>
    ELSE CASE n % 10 = 1 -> <<"s", "t">>
           [] n % 10 = 2 -> <<"n", "d">>
           [] n % 10 = 3 -> <<"r", "d">>
           [] OTHER -> <<"t", "h">>

\* f"{n}{suffix}"
ordinal(n) == str_int(n) \o OrdinalSuffix(n)

InitOrd ==
    /\ InitBase({NoFile})
    /\ call \in {[fn |-> "ordinal", n |-> n, done |-> FALSE, out |-> << >>] : n \in 0..MaxOrd}

CallOrdinal ==
    /\ call.fn = "ordinal"
    /\ ~call.done
    /\ call' = [call EXCEPT !.done = TRUE, !.out = ordinal(call.n)]
    /\ UNCHANGED <<file, tmp, args, pc, units, k, attempt, reqs, accepted, lastResp,
                   lastWait, io, emitted, outcome, hist>>

NextOrd == CallOrdinal

SpecOrd == InitOrd /\ [][NextOrd]_vars

OrdinalDone == call.fn = "ordinal" /\ call.done

\* the value of one decimal digit character, -1 for any other character
DigitVal(c) ==
    IF \E i \in 1..10 : DigitChars[i] = c
    THEN (CHOOSE i \in 1..10 : DigitChars[i] = c) - 1
    ELSE -1

RECURSIVE IntOf(_)
\* the integer a non-empty text of decimal digits denotes
IntOf(s) ==
    IF Len(s) = 1 THEN DigitVal(s[1])
    ELSE 10 * IntOf(SubSeq(s, 1, Len(s) - 1)) + DigitVal(s[Len(s)])

AllDigits(s) == Len(s) > 0 /\ \A i \in 1..Len(s) : DigitVal(s[i]) >= 0

\* C15: for every n in 0..MaxOrd the ordinal is the decimal text of n followed
\* by "th" when n mod 100 is 11, 12 or 13; otherwise by "st", "nd" or "rd" when
\* n mod 10 is 1, 2 or 3; otherwise by "th".
OrdinalSuffixRule ==
    OrdinalDone =>
        LET out == call.out
            m == Len(out) - 2
            n == call.n
        IN  /\ m >= 1
            /\ AllDigits(SubSeq(out, 1, m))
            /\ (m > 1 => out[1] # "0")
            /\ IntOf(SubSeq(out, 1, m)) = n
            /\ SubSeq(out, m + 1, m + 2) =
                 IF n % 100 \in {11, 12, 13} THEN <<"t", "h">>
                 ELSE IF n % 10 = 1 THEN <<"s", "t">>
                 ELSE IF n % 10 = 2 THEN <<"n", "d">>
                 ELSE IF n % 10 = 3 THEN <<"r", "d">>
                 ELSE <<"t", "h">>

\* C15 witness: 111 is in the teens of its hundred and reads "111th"
OrdinalSuffixRuleWitness ==
    OrdinalDone /\ call.n = 111 /\ call.out = <<"1", "1", "1", "t", "h">>

\* C17: every line that is longer than the maximum after right-trimming, of
\* length L, appears in the output as ceil(L/max) consecutive units that are its
\* consecutive slices (all but the last exactly max long), nothing added and no
\* slice sharing a unit with another line, wherever the line stands in the input.
OversizedLineSliced ==
    SplitDone =>
        \A i \in 1..Len(call.lines) :
            LET ln == NormalizeLine(call.lines[i])
                L == Len(ln)
                m == call.max_len
                n == (L + m - 1) \div m
                slice(j) == SubSeq(ln, (j - 1) * m + 1, IF j * m < L THEN j * m ELSE L)
            IN  L > m =>
                  \E p \in 0..(Len(call.out) - n) :
                      \A j \in 1..n : call.out[p + j] = slice(j)

\* C18: when a 5xx answer or a network-level failure is retried, the wait is
\* min(2^(n-1), 8) seconds for the n-th such failure of the unit (1, 2, 4, 8,
\* 8, ...), however many rate-limited answers the unit received before it.
BackoffPerTransientFailure ==
    [][(Posted /\ attempt' = attempt + 1 /\ IsTransient(lastResp'))
         => LET n == call'.transient
            IN  lastWait' = IF n >= 4 THEN 8 ELSE Pow2(n - 1)]_vars

-----------------------------------------------------------------------------
(* _write_state step by step: runs that keep a state file, with the partly
   written temporary file and the death of the process made visible *)

WriteArgs == {a \in RunArgs : a.state_file}

NextWrite ==
    \/ \E a \in WriteArgs : StartRun(a)
    \/ \E a \in WriteArgs : NextRun(a)
    \/ IdempotencyCheck
    \/ Post
    \/ FinishSend
    \/ WriteTmpPartial
    \/ WriteTmp
    \/ Replace
    \/ WriteFail
    \/ WriteFailTmpLeft
    \/ Interrupt
    \/ Crash

SpecWrite == InitRuns /\ [][NextWrite]_vars

\* the record the run in progress writes
NewRecord == StateJson(isoformat(args.today), digest(args))

\* the record path holds the complete previous record (or its absence) or the
\* complete new record, the latter only once os.replace has acted
RecordWhole ==
    hist.runs > 0 =>
        /\ file # Partial
        /\ file = hist.before \/ (file = NewRecord /\ io.writes = 1)
        /\ io.writes = 0 => file = hist.before

\* C13 as stated: at every point of a write, crash included, the record path
\* holds the whole previous record (or nothing) or the whole new record; and
\* when the write returns or fails, the temporary file no longer exists.
AtomicWriteTmpGone ==
    /\ RecordWhole
    /\ (Done /\ outcome.why \in {"sent", "write-failed"}) => tmp = NoFile

\* C13 amended: the same for the record path; when the write returns, the
\* temporary file no longer exists and the record is the new one; when it
\* fails or the process dies, the record is the previous one (the removal of
\* the temporary file is only attempted, so nothing is said of that file).
AtomicWriteBestEffortCleanup ==
    /\ RecordWhole
    /\ (Done /\ outcome = Exit(0, "sent")) => tmp = NoFile /\ file = NewRecord
    /\ (Done /\ outcome.why \in {"write-failed", "killed"}) => file = hist.before

\* C13 witness: the process died between write_text and os.replace, leaving the
\* previous record in place and the new one in the temporary file
AtomicWriteBestEffortCleanupWitness ==
    /\ Done /\ outcome.why = "killed"
    /\ tmp = NewRecord
    /\ file = hist.before /\ file # NewRecord /\ file # NoFile

-----------------------------------------------------------------------------
(* The guard over a state file that is absent or malformed *)

\* the ways the persisted record can be absent or malformed: no file, text
\* that is not JSON, nothing but white space ("empty"), a read that raises
\* OSError ("unreadable"), bytes that are not UTF-8 so that read_text raises
\* UnicodeDecodeError ("undecodable"), JSON that is not an object, and objects
\* in which a field is missing or empty
MalformedFiles ==
    {NoFile, Garbage}
    \cup {[kind |-> kd] : kd \in {"empty", "unreadable", "undecodable", "notobject"}}
    \cup {StateJson(Empty, Empty)}
    \cup {StateJson(isoformat(d), Empty) : d \in Days}
    \cup {StateJson(Empty, sha256_hex(JoinLines(l))) : l \in RunLines \ {<< >>}}

InitGuard == InitWith(MalformedFiles)

NextGuard ==
    \/ \E a \in RunArgs : StartRun(a)
    \/ IdempotencyCheck
    \/ Post
    \/ FinishSend
    \/ WriteTmp
    \/ Replace
    \/ WriteFail
    \/ Interrupt

SpecGuard == InitGuard /\ [][NextGuard]_vars

\* C19: a record that is absent, empty, unreadable, not valid JSON, not an
\* object, or without a non-empty date or fingerprint never aborts the run and
\* never causes a skip: the guard lets the run proceed to sending, and once
\* every unit is accepted and the write is done the record is the well-formed
\* one for today.
MalformedRecordProceeds ==
    (hist.runs > 0 /\ GuardReads(args) /\ hist.before \in MalformedFiles) =>
        /\ outcome.why \notin {"skip", "traceback"}
        /\ (Done /\ ~Interrupted /\ Sendable(units) # {}) => reqs # << >>
        /\ (Done /\ outcome = Exit(0, "sent")) =>
              /\ accepted = Sendable(units)
              /\ file = NewRecord
              /\ read_state(file) = RunKey(args)

-----------------------------------------------------------------------------
(* Text, JSON values and calendar dates *)

UpperChars == <<"A", "B", "C", "D", "E", "F", "G", "H", "I", "J", "K", "L", "M", "N", "O", "P", "Q", "R", "S", "T", "U", "V", "W", "X", "Y", "Z">>
LowerChars == <<"a", "b", "c", "d", "e", "f", "g", "h", "i", "j", "k", "l", "m", "n", "o", "p", "q", "r", "s", "t", "u", "v", "w", "x", "y", "z">>

\* str.lower()
Lower(s) ==
    LET LowerChar(c) ==
            IF \E i \in 1..26 : UpperChars[i] = c
            THEN LowerChars[CHOOSE i \in 1..26 : UpperChars[i] = c]
            ELSE c
    IN  [i \in 1..Len(s) |-> LowerChar(s[i])]

RECURSIVE LStrip(_)
LStrip(s) == IF Len(s) > 0 /\ IsSpace(s[1]) THEN LStrip(Tail(s)) ELSE s

\* str.strip()
Strip(s) == LStrip(RStrip(s))

\* JSON values as json.loads returns them
JStr(s) == [t |-> "str", v |-> s]
JInt(n) == [t |-> "int", v |-> n]
JBool(b) == [t |-> "bool", v |-> b]
JNull == [t |-> "null", v |-> 0]
JObj(fields) == [t |-> "obj", v |-> fields]

Has(obj, key) == key \in DOMAIN obj

\* "key in obj and obj[key] is not None"
Present(obj, key) == Has(obj, key) /\ obj[key].t # "null"

\* datetime.date(y, m, d) does not raise ValueError
ValidDate(y, m, d) ==
    LET IsLeap == (y % 4 = 0 /\ y % 100 # 0) \/ y % 400 = 0
        DaysInMonth ==
            IF m = 2 THEN (IF IsLeap THEN 29 ELSE 28)
            ELSE IF m \in {4, 6, 9, 11} THEN 30 ELSE 31
    IN  /\ 1 <= y /\ y <= 9999
        /\ 1 <= m /\ m <= 12
        /\ 1 <= d /\ d <= DaysInMonth

Date(y, m, d) == [year |-> y, month |-> m, day |-> d]

Failure(code, why) == [ok |-> FALSE, code |-> code, why |-> why]
Success(val) == [ok |-> TRUE, val |-> val]

\* _parse_iso_date: date.fromisoformat on "YYYY-MM-DD" (or "YYYYMMDD"); a
\* ValueError, also when there is no such day, is a configuration error
parse_iso_date(s) ==
    LET Digits(a, b) == AllDigits(SubSeq(s, a, b))
        Num(a, b) == IntOf(SubSeq(s, a, b))
        CheckedDate(y, m, d) ==
            IF ValidDate(y, m, d) THEN Success(Date(y, m, d)) ELSE Failure(3, "bad-date")
    IN  IF /\ Len(s) = 10 /\ s[5] = "-" /\ s[8] = "-"
           /\ Digits(1, 4) /\ Digits(6, 7) /\ Digits(9, 10)
        THEN CheckedDate(Num(1, 4), Num(6, 7), Num(9, 10))
        ELSE IF Len(s) = 8 /\ AllDigits(s)
        THEN CheckedDate(Num(1, 4), Num(5, 6), Num(7, 8))
        ELSE Failure(3, "bad-date")

-----------------------------------------------------------------------------
(* _normalize_event and _load_events *)

\* an Optional[...] field: Nothing is None, Some(x) a value
Nothing == {}
Some(x) == {x}
The(o) == CHOOSE x \in o : TRUE

\* _as_int: a boolean or any other non-integer is a configuration error
as_int(v) == IF v.t = "int" THEN Success(v.v) ELSE Failure(3, "not-int")

\* _as_str: a non-string is a configuration error, and so is a string that is
\* empty once stripped unless allow_empty; the stripped string is returned
as_str(v, allow_empty) ==
    LET Stripped(s) ==
            IF ~allow_empty /\ s = Empty THEN Failure(3, "empty-str") ELSE Success(s)
    IN  IF v.t # "str" THEN Failure(3, "not-str") ELSE Stripped(Strip(v.v))

\* _as_bool
as_bool(v) == IF v.t = "bool" THEN Success(v.v) ELSE Failure(3, "not-bool")

\* lines 191-193: str(obj.get("type", "event")).strip().lower() or "event"
kind_of(obj) ==
    LET py_str(v) ==
            CASE v.t = "str" -> v.v
              [] v.t = "int" -> str_int(v.v)
              [] v.t = "bool" -> (IF v.v THEN <<"T", "r", "u", "e">> ELSE <<"F", "a", "l", "s", "e">>)
              [] OTHER -> <<"N", "o", "n", "e">>
        OrEvent(kd) == IF kd = Empty THEN <<"e", "v", "e", "n", "t">> ELSE kd
    IN  OrEvent(Lower(Strip(IF Has(obj, "type") THEN py_str(obj.type) ELSE <<"e", "v", "e", "n", "t">>)))

\* lines 217-240: the date form, a fixed date (recurring only when the record
\* says so) or month and day (recurring unless it says not)
date_form(obj) ==
    LET recurring_of(default) ==
            IF Has(obj, "recurring") THEN as_bool(obj.recurring) ELSE Success(default)
        ParsedForm(pd, rec) ==
            IF ~pd.ok THEN pd
            ELSE IF ~rec.ok THEN rec
            ELSE Success([month |-> pd.val.month, day |-> pd.val.day,
                          recurring |-> rec.val,
                          specific_date |-> IF rec.val THEN Nothing ELSE Some(pd.val)])
        FixedForm(ds, rec) ==
            IF ~ds.ok THEN ds ELSE ParsedForm(parse_iso_date(ds.val), rec)
        MonthDayForm(mo, dy, rec) ==
            IF ~mo.ok THEN mo
            ELSE IF ~dy.ok THEN dy
            ELSE IF ~rec.ok THEN rec
            ELSE Success([month |-> mo.val, day |-> dy.val, recurring |-> rec.val,
                          specific_date |-> Nothing])
    IN  IF Present(obj, "date")
        THEN FixedForm(as_str(obj.date, FALSE), recurring_of(FALSE))
        ELSE IF ~Has(obj, "month") \/ ~Has(obj, "day") THEN Failure(3, "no-date")
        ELSE MonthDayForm(as_int(obj.month), as_int(obj.day), recurring_of(TRUE))

\* _normalize_event: the Event of one JSON object, or the configuration error
\* the first bad field dies with
normalize_event(obj, index) ==
    LET OptionalStr(key, allow_empty) ==
            IF Present(obj, key) THEN as_str(obj[key], allow_empty) ELSE Success(Empty)
        OptionalOf(key, r) == IF Present(obj, key) THEN Some(r.val) ELSE Nothing
        EventOf(name, mention, message, emoji, year, form) ==
            IF ~name.ok THEN name
            ELSE IF ~mention.ok THEN mention
            ELSE IF ~message.ok THEN message
            ELSE IF ~emoji.ok THEN emoji
            ELSE IF ~year.ok THEN year
            ELSE IF ~form.ok THEN form
            ELSE IF ~(1 <= form.val.month /\ form.val.month <= 12) THEN Failure(3, "month-range")
            ELSE IF ~(1 <= form.val.day /\ form.val.day <= 31) THEN Failure(3, "day-range")
            ELSE IF ~ValidDate(2024, form.val.month, form.val.day) THEN Failure(3, "no-such-day")
            ELSE Success([kind |-> kind_of(obj),
                          name |-> name.val,
                          month |-> form.val.month,
                          day |-> form.val.day,
                          specific_date |-> form.val.specific_date,
                          recurring |-> form.val.recurring,
                          year |-> OptionalOf("year", year),
                          message |-> OptionalOf("message", message),
                          mention |-> mention.val,
                          emoji |-> OptionalOf("emoji", emoji),
                          index |-> index])
    IN  EventOf(IF Present(obj, "name") THEN as_str(obj.name, FALSE)
                ELSE Failure(3, "missing-name"),
                OptionalStr("mention", TRUE),
                OptionalStr("message", FALSE),
                OptionalStr("emoji", FALSE),
                IF Present(obj, "year") THEN as_int(obj.year) ELSE Success(0),
                date_form(obj))

RECURSIVE LoadLoopLenient(_, _, _)
RECURSIVE LoadLoop(_, _, _)


\* variant: a record that cannot be normalized is passed over like a non-object
LoadLoopLenient(items, i, events) ==
    IF i > Len(items) THEN Success(events)
    ELSE IF items[i].t = "obj" /\ normalize_event(items[i].v, i - 1).ok
         THEN LoadLoopLenient(items, i + 1,
                              Append(events, normalize_event(items[i].v, i - 1).val))
    ELSE LoadLoopLenient(items, i + 1, events)

\* lines 303-312: non-objects are skipped, each object is normalized with its
\* index in the list, and the first failure ends the program
LoadLoop(items, i, events) ==
    IF i > Len(items) THEN Success(events)
    ELSE IF items[i].t # "obj" THEN LoadLoop(items, i + 1, events)
    ELSE LET Normalized(ev) ==
                 IF ev.ok THEN LoadLoop(items, i + 1, Append(events, ev.val)) ELSE ev
         IN  Normalized(normalize_event(items[i].v, i - 1))

\* the events file: a JSON list (bare or under "events"), or one of the ways
\* lines 278-301 reject it
ListFile(items) == [kind |-> "list", items |-> items]
BadFiles == {[kind |-> kd, items |-> << >>] :
               kd \in {"missing", "unreadable", "undecodable", "badjson", "noevents", "notlist"}}

\* _load_events
load_events(f) ==
    CASE f.kind = "list" -> LoadLoop(f.items, 1, << >>)
      [] f.kind = "unreadable" -> Failure(4, "events-unreadable")
      [] f.kind = "undecodable" -> Failure(1, "traceback")
      [] OTHER -> Failure(3, "events-" \o f.kind)

-----------------------------------------------------------------------------
(* _today_in_tz, _event_matches_today and _render_event_message *)

\* _today_in_tz: the override date if there is one, else the date of now in
\* the zone; a missing zoneinfo module or an invalid zone is a usage error
today_in_tz(tz, now, override_date) ==
    LET ZoneUsable == tz = "valid"
    IN  IF override_date # Nothing THEN parse_iso_date(The(override_date))
        ELSE IF ~ZoneUsable THEN Failure(2, "bad-tz")
        ELSE Success(now)

\* variant: the year of a fixed date is ignored
EventMatchesMonthDay(ev, today) == ev.month = today.month /\ ev.day = today.day

\* _event_matches_today
event_matches_today(ev, today) ==
    IF ev.specific_date # Nothing THEN The(ev.specific_date) = today
    ELSE ev.month = today.month /\ ev.day = today.day

\* line 586: the list comprehension keeps the catalog order
todays_events(events, today) ==
    SelectSeq(events, LAMBDA ev : event_matches_today(ev, today))

\* one-character stand-ins for the emoji U+1F382 (birthday cake), U+1F389
\* (party popper) and U+1F4CC (pushpin)
Cake == "%"
Party == "&"
Pin == "#"

Birthday == <<"b", "i", "r", "t", "h", "d", "a", "y">>
Holiday == <<"h", "o", "l", "i", "d", "a", "y">>

\* _default_emoji
default_emoji(kind) ==
    IF kind = Birthday THEN <<Cake>>
    ELSE IF kind = Holiday THEN <<Party>>
    ELSE <<Pin>>

\* variant: the age is computed whatever the kind
AgeAnyKind(ev, today) ==
    IF ev.year # Nothing /\ today.year - The(ev.year) >= 0
    THEN Some(today.year - The(ev.year))
    ELSE Nothing

\* lines 348-352: the age, for a birthday with a year that is not in the future
age_of(ev, today) ==
    IF ev.kind = Birthday /\ ev.year # Nothing /\ today.year - The(ev.year) >= 0
    THEN Some(today.year - The(ev.year))
    ELSE Nothing

\* the decimal text of n >= 0 padded with zeros to w digits
RECURSIVE ZeroPad(_, _)
ZeroPad(n, w) == IF w = 0 THEN << >> ELSE ZeroPad(n \div 10, w - 1) \o <<DigitChars[(n % 10) + 1]>>

\* today.strftime("%A"): the day of the week of a Gregorian date
weekday(d) ==
    LET WeekdayNames ==
            <<<<"S", "u", "n", "d", "a", "y">>, <<"M", "o", "n", "d", "a", "y">>, <<"T", "u", "e", "s", "d", "a", "y">>, <<"W", "e", "d", "n", "e", "s", "d", "a", "y">>,
              <<"T", "h", "u", "r", "s", "d", "a", "y">>, <<"F", "r", "i", "d", "a", "y">>, <<"S", "a", "t", "u", "r", "d", "a", "y">>>>
        a == (14 - d.month) \div 12
        y == d.year - a
        m == d.month + 12 * a - 2
    IN  WeekdayNames[((d.day + y + (y \div 4) - (y \div 100) + (y \div 400)
                       + ((31 * m) \div 12)) % 7) + 1]

RECURSIVE FormatFrom(_, _, _)
\* the template is read from the left, out being what is written so far: a
\* {key} field, closed by the first "}", writes the value of its key
FormatFrom(s, mp, out) ==
    LET Closing ==
            IF \E i \in 1..Len(s) : s[i] = "}"
            THEN CHOOSE i \in 1..Len(s) : s[i] = "}" /\ \A j \in 1..(i - 1) : s[j] # "}"
            ELSE 0
        FormatField(c) ==
            IF SubSeq(s, 2, c - 1) \notin DOMAIN mp THEN Failure(3, "unknown-placeholder")
            ELSE FormatFrom(SubSeq(s, c + 1, Len(s)), mp, out \o mp[SubSeq(s, 2, c - 1)])
    IN  IF s = << >> THEN Success(out)
        ELSE IF s[1] # "{" THEN FormatFrom(Tail(s), mp, out \o <<s[1]>>)
        ELSE IF Closing = 0 THEN Failure(1, "traceback")
        ELSE FormatField(Closing)

\* str.format_map for templates of literal text and {key} fields: a key that
\* the mapping lacks raises KeyError, a "{" that is never closed ValueError
format_map(s, mp) == FormatFrom(s, mp, << >>)

\* _render_event_message: the line for one matched event, or the error a
\* template dies with
render_event_message(ev, today) ==
    LET emoji == IF ev.emoji # Nothing THEN The(ev.emoji) ELSE default_emoji(ev.kind)
        \* str(n) of any integer
        int_str(n) == IF n < 0 THEN <<"-">> \o str_int(0 - n) ELSE str_int(n)
        \* today.isoformat() as text
        date_iso ==
            ZeroPad(today.year, 4) \o <<"-">> \o ZeroPad(today.month, 2) \o <<"-">>
            \o ZeroPad(today.day, 2)
        \* lines 359-367: what a template may refer to
        mapping(age) ==
            [key \in {<<"n", "a", "m", "e">>, <<"a", "g", "e">>, <<"a", "g", "e", "_", "o", "r", "d", "i", "n", "a", "l">>, <<"d", "a", "t", "e">>, <<"w", "e", "e", "k", "d", "a", "y">>,
                      <<"y", "e", "a", "r">>, <<"e", "m", "o", "j", "i">>} |->
                CASE key = <<"n", "a", "m", "e">> -> ev.name
                  [] key = <<"a", "g", "e">> -> (IF age = Nothing THEN Empty ELSE int_str(The(age)))
                  [] key = <<"a", "g", "e", "_", "o", "r", "d", "i", "n", "a", "l">> ->
                         (IF age = Nothing THEN Empty ELSE ordinal(The(age)))
                  [] key = <<"d", "a", "t", "e">> -> date_iso
                  [] key = <<"w", "e", "e", "k", "d", "a", "y">> -> weekday(today)
                  [] key = <<"y", "e", "a", "r">> ->
                         (IF ev.year = Nothing THEN Empty ELSE int_str(The(ev.year)))
                  [] OTHER -> emoji]
        \* lines 376-385: the default message
        default_message(age) ==
            IF ev.kind = Birthday
            THEN IF age = Nothing
                 THEN emoji \o <<" ", "H", "a", "p", "p", "y", " ", "b", "i", "r", "t", "h", "d", "a", "y", ",", " ">> \o ev.name \o <<"!">>
                 ELSE emoji \o <<" ", "H", "a", "p", "p", "y", " ">> \o ordinal(The(age))
                      \o <<" ", "b", "i", "r", "t", "h", "d", "a", "y", ",", " ">> \o ev.name \o <<"!">>
            ELSE emoji \o <<SP>> \o ev.name \o <<".">>
        \* lines 372-373: a template that renders to nothing is a configuration error
        NonBlank(s) == IF s = Empty THEN Failure(3, "empty-message") ELSE Success(s)
        \* lines 368-374: the rendered template, stripped
        Rendered(r) == IF ~r.ok THEN r ELSE NonBlank(Strip(r.val))
        Body(age) ==
            IF ev.message # Nothing
            THEN Rendered(format_map(The(ev.message), mapping(age)))
            ELSE Success(default_message(age))
        \* lines 387-389: the mention, when there is one, goes first
        WithMention(mention, body) ==
            IF ~body.ok THEN body
            ELSE IF mention # Empty THEN Success(mention \o <<SP>> \o body.val)
            ELSE body
    IN  WithMention(Strip(ev.mention), Body(age_of(ev, today)))

RECURSIVE RenderAll(_, _, _)
\* line 592: the lines of the matched events, in order, out being the lines so
\* far; the error of the first template that fails ends the run
RenderAll(evs, today, out) ==
    LET RenderNext(first) ==
            IF ~first.ok THEN first ELSE RenderAll(Tail(evs), today, Append(out, first.val))
    IN  IF evs = << >> THEN Success(out)
        ELSE RenderNext(render_event_message(Head(evs), today))

-----------------------------------------------------------------------------
(* main from the command line: today, the catalog, the matching, the rendering *)

DISCORD_MAX_CONTENT_LEN == 2000

MaxCat == 2

\* the records an events file is made of here: birthdays with a birth year
\* (one in the future of 2026), a fixed date, a fixed date marked recurring, a
\* holiday with a year, a month/day record marked non-recurring, two templates
\* (one with an unknown field), a record without a name, one with a boolean
\* month, and a number where a record is expected
RawItems ==
    <<JObj([type |-> JStr(<<"B", "i", "r", "t", "h", "d", "a", "y", " ">>), name |-> JStr(<<"A", "d", "a">>), month |-> JInt(7),
           day |-> JInt(1), year |-> JInt(1990), mention |-> JStr(<<" ", "@", "a">>)]),
     JObj([type |-> JStr(<<"b", "i", "r", "t", "h", "d", "a", "y">>), name |-> JStr(<<"B", "o">>), date |-> JStr(<<"2", "0", "2", "6", "-", "0", "7", "-", "0", "1">>),
           recurring |-> JBool(TRUE), year |-> JInt(2027)]),
     JObj([name |-> JStr(<<"G", "a", "l", "a">>), date |-> JStr(<<"2", "0", "2", "6", "-", "0", "7", "-", "0", "1">>)]),
     JObj([type |-> JStr(<<"h", "o", "l", "i", "d", "a", "y">>), name |-> JStr(<<"F", "e", "t", "e">>), month |-> JInt(7),
           day |-> JInt(1), year |-> JInt(2000), mention |-> JNull]),
     JObj([name |-> JStr(<<"G", "a", "l", "a">>), month |-> JInt(7), day |-> JInt(2),
           recurring |-> JBool(FALSE)]),
     JObj([name |-> JStr(<<"A", "d", "a">>), month |-> JInt(7), day |-> JInt(2),
           message |-> JStr(<<"{", "n", "a", "m", "e", "}", " ", "{", "w", "e", "e", "k", "d", "a", "y", "}", " ", "{", "d", "a", "t", "e", "}">>)]),
     JObj([name |-> JStr(<<"B", "o">>), month |-> JInt(7), day |-> JInt(1),
           message |-> JStr(<<"{", "n", "o", "m", "}">>)]),
     JObj([month |-> JInt(7), day |-> JInt(1)]),
     JObj([name |-> JStr(<<"B", "o">>), month |-> JBool(TRUE), day |-> JInt(1)]),
     JInt(5)>>

RECURSIVE ItemLists(_)
\* the lists of at most n records, each named by its place in RawItems
ItemLists(n) ==
    IF n = 0 THEN {<< >>}
    ELSE {<< >>} \cup {<<x>> \o l : x \in 1..Len(RawItems), l \in ItemLists(n - 1)}

\* the events file a run is given, as json.loads returns it
FileOf(f) == [kind |-> f.kind, items |-> [i \in 1..Len(f.items) |-> RawItems[f.items[i]]]]

\* the --date values: none, two valid dates a year apart, and no date at all
Overrides == {Nothing, Some(<<"2", "0", "2", "6", "-", "0", "7", "-", "0", "1">>), Some(<<"2", "0", "2", "7", "-", "0", "7", "-", "0", "1">>), Some(<<"2", "0", "2", "6", "-", "1", "3", "-", "0", "1">>)}

\* what a run is given: --tz (a valid zone, an invalid one, or no zoneinfo
\* module), --date and the events file
MainInputs(n) ==
    [tz : {"valid", "invalid", "unavailable"},
     date : Overrides,
     events_file : {ListFile(l) : l \in ItemLists(n)} \cup BadFiles]

\* the date of now in the configured zone
Today == Date(2026, 7, 2)

\* the other options: a state file, no retries, the default maximum length
MainFlags == [NoArgs EXCEPT !.state_file = TRUE,
                            !.max_content_len = DISCORD_MAX_CONTENT_LEN]

\* what is known of the front of main: how far it came, and what each step gave
FrontLog(inp, stage, today, events, matched, lines) ==
    [fn |-> "main", inp |-> inp, stage |-> stage, today |-> today, events |-> events,
     matched |-> matched, lines |-> lines]

\* lines 583-592: today, then the catalog, then the matching and the rendering
Front(inp) ==
    LET Rendered(today, events, matched, lines) ==
            IF ~lines.ok
            THEN [ok |-> FALSE, exit |-> Exit(lines.code, lines.why),
                  log |-> FrontLog(inp, "render", Some(today), events, matched, << >>)]
            ELSE [ok |-> TRUE, exit |-> Running,
                  log |-> FrontLog(inp, "run", Some(today), events, matched, lines.val)]
        Matched(today, events, matched) ==
            Rendered(today, events, matched, RenderAll(matched, today, << >>))
        Catalog(today, ld) ==
            IF ~ld.ok
            THEN [ok |-> FALSE, exit |-> Exit(ld.code, ld.why),
                  log |-> FrontLog(inp, "load", Some(today), << >>, << >>, << >>)]
            ELSE Matched(today, ld.val, todays_events(ld.val, today))
        Resolved(t) ==
            IF ~t.ok
            THEN [ok |-> FALSE, exit |-> Exit(t.code, t.why),
                  log |-> FrontLog(inp, "today", Nothing, << >>, << >>, << >>)]
            ELSE Catalog(t.val, load_events(FileOf(inp.events_file)))
    IN  Resolved(today_in_tz(inp.tz, Today, inp.date))

\* die(...) before anything is chunked
Abort(exit) ==
    /\ args' = MainFlags
    /\ hist' = [runs |-> hist.runs + 1, before |-> file, delivered |-> hist.delivered,
                prev |-> NoPrev]
    /\ k' = 1 /\ attempt' = 0 /\ reqs' = << >> /\ accepted' = {}
    /\ lastResp' = NoResp /\ lastWait' = 0 /\ io' = NoIO /\ emitted' = << >>
    /\ units' = << >>
    /\ pc' = "done"
    /\ outcome' = exit
    /\ UNCHANGED <<file, tmp>>

\* the invocation of the program: main() from its first line, for one command
\* line and events file
StartMain ==
    /\ pc = "idle"
    /\ \E inp \in MainInputs(MaxCat) : \E f \in {Front(inp)} :
          /\ call' = f.log
          /\ IF f.ok
             THEN BeginRun([MainFlags EXCEPT !.today = The(f.log.today),
                                             !.lines = f.log.lines])
             ELSE Abort(f.exit)

\* a state file is there, left by some earlier run
InitMain == InitWith({Garbage})

NextMain ==
    \/ StartMain
    \/ IdempotencyCheck
    \/ Post
    \/ FinishSend
    \/ WriteTmp
    \/ Replace
    \/ WriteFail
    \/ Interrupt

SpecMain == InitMain /\ [][NextMain]_vars

\* the front of main has run
MainRan == call.fn = "main"
\* _load_events was called
Loaded == MainRan /\ call.stage # "today"

\* the catalog was loaded (and today resolved)
Catalogued == MainRan /\ call.stage \in {"render", "run"}

\* the records of the input list, and the places of those that are objects
InputItems == FileOf(call.inp.events_file).items
ObjectPlaces == {i \in 1..Len(InputItems) : InputItems[i].t = "obj"}

\* C12: every Event the loader produces has a specific date exactly when it is
\* not recurring: none is non-recurring without a specific date, and a fixed
\* date marked recurring has lost its specific date.
SpecificDateIffNotRecurring ==
    Catalogued =>
        \A i \in 1..Len(call.events) :
            (call.events[i].specific_date # Nothing) <=> ~call.events[i].recurring

\* a required field of the record is missing or of the wrong type
BadRequired(o) ==
    \/ ~Has(o, "name") \/ o.name.t # "str"
    \/ IF Has(o, "date") /\ o.date.t # "null"
       THEN o.date.t # "str"
       ELSE \/ ~Has(o, "month") \/ ~Has(o, "day")
            \/ o.month.t # "int" \/ o.day.t # "int"

\* C20: for every input list the load either fails with a configuration error,
\* and then nothing is matched or sent and the record is untouched, or returns
\* exactly one Event per object record, in input order, each with the index of
\* its record; a non-object entry is skipped without failing the load, and an
\* object record with a missing or wrongly typed required field fails it.
LoadAllOrNothing ==
    (MainRan /\ call.inp.events_file.kind = "list" /\ call.stage # "today") =>
        /\ call.stage = "load" =>
              /\ pc = "done" /\ outcome.code = 3
              /\ call.events = << >> /\ call.matched = << >> /\ units = << >>
              /\ reqs = << >> /\ file = hist.before /\ io = NoIO
              /\ \E i \in ObjectPlaces : ~normalize_event(InputItems[i].v, i - 1).ok
        /\ call.stage # "load" =>
              /\ Len(call.events) = Cardinality(ObjectPlaces)
              /\ \A j \in 1..Len(call.events) :
                    /\ call.events[j].index + 1 \in ObjectPlaces
                    /\ j = Cardinality({i \in ObjectPlaces : i <= call.events[j].index + 1})
                    /\ call.events[j].name = Strip(InputItems[call.events[j].index + 1].v.name.v)
        /\ (\E i \in ObjectPlaces : BadRequired(InputItems[i].v)) => call.stage = "load"

\* C20 witness: a number before an object record was skipped, and the one
\* Event returned carries the index 1 of its record
LoadAllOrNothingWitness ==
    /\ Catalogued
    /\ Len(InputItems) = 2 /\ InputItems[1].t = "int"
    /\ Len(call.events) = 1 /\ call.events[1].index = 1

\* C11: the matched events are exactly the events of the catalog, in catalog
\* order and each at most once, whose specific date is today or, when they have
\* none, whose month and day are today's; so an event without a specific date
\* matches in every year and one with a specific date on that date only.
MatchIsOrderedSelection ==
    Catalogued =>
        LET today == The(call.today)
            hit(e) == IF e.specific_date # Nothing
                      THEN The(e.specific_date).year = today.year
                           /\ The(e.specific_date).month = today.month
                           /\ The(e.specific_date).day = today.day
                      ELSE e.month = today.month /\ e.day = today.day
            places(evs) == {evs[i].index : i \in 1..Len(evs)}
        IN  /\ places(call.matched) = {call.events[i].index : i \in {n \in 1..Len(call.events) :
                                                                     hit(call.events[n])}}
            /\ \A i, j \in 1..Len(call.matched) :
                  i < j => call.matched[i].index < call.matched[j].index
            /\ \A j \in 1..Len(call.matched) :
                  \E i \in 1..Len(call.events) : call.events[i] = call.matched[j]

\* C11 witness: a year later the event fixed on 2026-07-01 does not match, the
\* birthday on every 1 July does
MatchIsOrderedSelectionWitness ==
    /\ Catalogued
    /\ The(call.today) = Date(2027, 7, 1)
    /\ Len(call.events) = 2
    /\ call.events[1].specific_date = Some(Date(2026, 7, 1))
    /\ Len(call.matched) = 1 /\ call.matched[1].index = 1
    /\ call.matched[1].specific_date = Nothing

\* C16: the age of a matched event is today's year minus its year when the
\* kind is birthday, the year is present and the difference is not negative,
\* and is absent otherwise; without a template the line is "<emoji> Happy
\* <ordinal(age)> birthday, <name>!" for a birthday with an age, "<emoji> Happy
\* birthday, <name>!" for one without, "<emoji> <name>." for any other kind,
\* after the mention and one space when the mention is not empty.
DefaultMessageAndAge ==
    (MainRan /\ call.stage = "run") =>
        \A j \in 1..Len(call.matched) :
            LET ev == call.matched[j]
                today == The(call.today)
                age == age_of(ev, today)
                aged == ev.kind = <<"b", "i", "r", "t", "h", "d", "a", "y">> /\ ev.year # Nothing
                        /\ today.year - The(ev.year) >= 0
                emoji == IF ev.emoji # Nothing THEN The(ev.emoji)
                         ELSE IF ev.kind = <<"b", "i", "r", "t", "h", "d", "a", "y">> THEN <<Cake>>
                         ELSE IF ev.kind = <<"h", "o", "l", "i", "d", "a", "y">> THEN <<Party>>
                         ELSE <<Pin>>
                text == IF ev.kind = <<"b", "i", "r", "t", "h", "d", "a", "y">>
                        THEN IF aged
                             THEN emoji \o <<" ", "H", "a", "p", "p", "y", " ">> \o ordinal(today.year - The(ev.year))
                                  \o <<" ", "b", "i", "r", "t", "h", "d", "a", "y", ",", " ">> \o ev.name \o <<"!">>
                             ELSE emoji \o <<" ", "H", "a", "p", "p", "y", " ", "b", "i", "r", "t", "h", "d", "a", "y", ",", " ">> \o ev.name \o <<"!">>
                        ELSE emoji \o <<" ">> \o ev.name \o <<".">>
            IN  /\ aged => age = Some(today.year - The(ev.year))
                /\ ~aged => age = Nothing
                /\ ev.message = Nothing =>
                      call.lines[j] = IF ev.mention # Empty THEN ev.mention \o <<" ">> \o text
                                      ELSE text

\* C16 witness: Ada, born in 1990 and mentioned as @a, is wished a happy 36th
\* birthday on 2026-07-01
DefaultMessageAndAgeWitness ==
    /\ MainRan /\ call.stage = "run"
    /\ The(call.today) = Date(2026, 7, 1)
    /\ \E j \in 1..Len(call.lines) :
          call.lines[j] = <<"@", "a", " ", "%", " ", "H", "a", "p", "p", "y", " ", "3", "6", "t", "h", " ", "b", "i", "r", "t", "h", "d", "a", "y", ",", " ", "A", "d", "a", "!">>

\* C14: whenever the zone name is invalid the run fails with a usage
\* error before the catalog is loaded, whatever the other inputs, an override
\* date included.
InvalidZoneFailsFirst ==
    (MainRan /\ call.inp.tz = "invalid") =>
        pc = "done" /\ outcome.code = 2 /\ call.stage = "today"

-----------------------------------------------------------------------------
(* Runs over several days and contents, dry runs among them *)

\* what is remembered across runs: the (date, fingerprint) of the most recent
\* run that delivered every unit and returned 0 ("sent"), and of the most
\* recent such run that was given a state file ("kept")
RunsLog == [fn |-> "runs", sent |-> {}, kept |-> {}]

\* the run that just ended went through lines 626-634 to "return 0"
JustSent == pc = "done" /\ outcome = Exit(0, "sent")

\* the log once the run that just ended is taken into account
Remembered ==
    [fn |-> "runs",
     sent |-> IF JustSent THEN {RunKey(args)} ELSE call.sent,
     kept |-> IF JustSent /\ args.state_file THEN {RunKey(args)} ELSE call.kept]

\* repeated runs, with and without --dry-run and --state-file, never forced
DayArgs == {a \in Args : /\ ~a.split_messages /\ ~a.verify_webhook /\ ~a.force
                         /\ a.retries = 0
                         /\ a.max_content_len = MaxLen /\ a.lines # << >>}

\* a further invocation after the previous one ended
NextDay(a) ==
    /\ pc = "done"
    /\ hist.runs < MaxRuns
    /\ BeginRun(a)
    /\ call' = Remembered

InitDays == InitBase({NoFile, Garbage}) /\ call = RunsLog

NextDays ==
    \/ \E a \in DayArgs : StartRun(a)
    \/ \E a \in DayArgs : NextDay(a)
    \/ DryRun
    \/ IdempotencyCheck
    \/ Post
    \/ FinishSend
    \/ WriteTmp
    \/ Replace
    \/ WriteFail
    \/ Interrupt

SpecDays == InitDays /\ [][NextDays]_vars

\* the record the run found holds today's date and another fingerprint
ContentChanged ==
    /\ hist.before.kind = "json"
    /\ hist.before.last_sent = isoformat(args.today)
    /\ hist.before.sha256 # digest(args)

\* C21 as stated: a run (not a dry run) on date D whose content differs from
\* the content recorded for D is not skipped, sends its units (every one of
\* them when it succeeds) and on success leaves the record holding D and the new
\* fingerprint; and whenever a run has ended, the record holds the date and
\* fingerprint of the most recent run that delivered everything and returned 0.
RecordIsLastSuccess ==
    /\ (Done /\ ~args.dry_run /\ ContentChanged) =>
          /\ outcome.why # "skip"
          /\ ~Interrupted => reqs # << >>
          /\ outcome.code = 0 =>
                /\ accepted = Sendable(units)
                /\ file = StateJson(RunKey(args)[1], RunKey(args)[2])
    /\ Done => \A key \in Remembered.sent : file = StateJson(key[1], key[2])

\* C21 amended: the same for runs that are given the state file: such a run
\* on changed content is not skipped and on success overwrites the record; and
\* whenever a run has ended, the record holds the date and fingerprint of the
\* most recent run with a state file that delivered everything and returned 0.
RecordIsLastKeptSuccess ==
    /\ (Done /\ ~args.dry_run /\ args.state_file /\ ContentChanged) =>
          /\ outcome.why # "skip"
          /\ ~Interrupted => reqs # << >>
          /\ outcome.code = 0 =>
                /\ accepted = Sendable(units)
                /\ file = StateJson(RunKey(args)[1], RunKey(args)[2])
                /\ file # hist.before
    /\ Done => \A key \in Remembered.kept : file = StateJson(key[1], key[2])

\* C21 witness: the record of an earlier run of the same day was overwritten by
\* a run (force off) with other content, after a run without a state file had
\* delivered something else in between
RecordIsLastKeptSuccessWitness ==
    /\ Done /\ outcome = Exit(0, "sent")
    /\ GuardReads(args) /\ ContentChanged
    /\ file = StateJson(RunKey(args)[1], RunKey(args)[2])
    /\ call.kept # {} /\ call.sent # call.kept
    /\ hist.runs = 3

-----------------------------------------------------------------------------
(* Runs in either delivery mode and with any maximum length *)

\* repeated runs with a state file, with and without --split-messages and
\* with every --max-content-len
ModeArgs == {a \in Args : /\ ~a.dry_run /\ ~a.verify_webhook /\ ~a.force
                          /\ a.state_file /\ a.retries = 0 /\ a.lines # << >>}

\* a further invocation; the command line of the run that wrote the record
\* last is remembered
NextMode(a) ==
    /\ pc = "done"
    /\ hist.runs < MaxRuns
    /\ BeginRun(a)
    /\ call' = [fn |-> "modes", writer |-> IF JustSent THEN {args} ELSE call.writer]

InitModes == InitBase({NoFile}) /\ call = [fn |-> "modes", writer |-> {}]

NextModes ==
    \/ \E a \in ModeArgs : StartRun(a)
    \/ \E a \in ModeArgs : NextMode(a)
    \/ IdempotencyCheck
    \/ Post
    \/ FinishSend
    \/ WriteTmp
    \/ Replace
    \/ WriteFail
    \/ Interrupt

SpecModes == InitModes /\ [][NextModes]_vars

\* the record the run found was written by run w: same day, same rendered
\* lines, but the other delivery mode or another maximum length
OtherModeWrote(w) ==
    /\ w.today = args.today /\ w.lines = args.lines
    /\ (w.split_messages # args.split_messages \/ w.max_content_len # args.max_content_len)
    /\ hist.before = StateJson(isoformat(w.today), digest(w))

\* C22: the fingerprint is that of the rendered lines joined by newline, the
\* same in both delivery modes and for every maximum length; and a run (with
\* the state file, not forced) that finds the record written the same day by a
\* successful run with the same lines in the other mode, or with another
\* maximum length, is skipped: no request, the record untouched, success.
FingerprintIgnoresMode ==
    /\ digest(args) = sha256_hex(JoinLines(args.lines))
    /\ \A w \in call.writer : w.lines = args.lines => digest(w) = digest(args)
    /\ (Done /\ outcome = Exit(0, "sent")) =>
          file = StateJson(isoformat(args.today), sha256_hex(JoinLines(args.lines)))
    /\ (Done /\ ~Interrupted /\ GuardReads(args) /\ \E w \in call.writer : OtherModeWrote(w)) =>
          /\ outcome = Exit(0, "skip")
          /\ reqs = << >> /\ io.writes = 0 /\ file = hist.before

\* C22 witness: a run in per-event mode was skipped on the record of a combined
\* run of the same day with another maximum length, whose units were different
FingerprintIgnoresModeWitness ==
    /\ Done /\ outcome = Exit(0, "skip")
    /\ args.split_messages
    /\ \E w \in call.writer :
          /\ OtherModeWrote(w)
          /\ ~w.split_messages /\ w.max_content_len # args.max_content_len
          /\ message_units(w) # units

====
